---- MODULE Spec2Model ----
(***************************************************************************)
(* Model of fluent_anvil's JavaScript interface                            *)
(* (js_library/src/fluent_anvil.js): the resource fetcher, the bundle      *)
(* construction with its error container, the asynchronous fallback bundle *)
(* generator and init_localization.                                        *)
(*                                                                         *)
(* JavaScript strings are modelled as sequences of one-character strings,  *)
(* so that String.prototype.replace, string concatenation and iteration    *)
(* over a string are computed, not assumed.                                *)
(***************************************************************************)
EXTENDS Integers, Sequences, FiniteSets, TLC

VARIABLES
    heap,           \* the Array objects allocated so far: heap[r] = items of array r
    accumulators,   \* the error containers {entries: ...} created by init_localization
    generators,     \* the closures returned by create_bundle_generator
    localizations,  \* the DOMLocalization / Localization objects holding a generator
    calls,          \* what each call of init_localization returned to its caller
    producers       \* producers[l]: the async generator objects made by invoking
                    \* the generator function of localization l

vars == <<heap, accumulators, generators, localizations, calls, producers>>

----------------------------------------------------------------------------
(* Bounds of the model.                                                    *)

MaxFallback == 2         \* longest fallback list passed to init_localization
MaxRequests == 5         \* next-bundle requests of the consumers in a run of Spec
MaxCalls == 2            \* calls of init_localization in a run of SpecSessions
MaxSessionRequests == 2  \* next-bundle requests in a run of SpecSessions
MaxSessionFallback == 1  \* longest fallback list in a run of SpecSessions
MaxTagLength == 3        \* longest generated locale tag in a run of SpecUrl
MaxUrlRequests == 1      \* next-bundle requests in a run of SpecUrl
MaxInvocations == 1      \* further invocations of generator functions, SpecInvocations
MaxInvocationRequests == 3  \* next-bundle requests in a run of SpecInvocations
MaxInvocationFallback == 1  \* longest fallback list in a run of SpecInvocations

----------------------------------------------------------------------------
(* Inputs.                                                                 *)

enUS == <<"e", "n", "-", "U", "S">>
de_DE == <<"d", "e", "_", "D", "E">>
zhHantTW == <<"z", "h", "-", "H", "a", "n", "t", "-", "T", "W">>

\* Locale tags handed to init_localization.
Locales == {enUS, de_DE, zhHantTW}

Placeholder == <<"{", "l", "o", "c", "a", "l", "e", "}">>

\* "l/{locale}/m", a short stand-in for "localization/{locale}/main.ftl".
MainTemplate == <<"l", "/">> \o Placeholder \o <<"/", "m">>

Templates == {MainTemplate}

\* Templates with two placeholders and with none.
TwoPlaceholders == Placeholder \o <<"/">> \o Placeholder
NoPlaceholder == <<"l", "/", "m">>

UrlTemplates == {MainTemplate, TwoPlaceholders, NoPlaceholder}

RECURSIVE SeqsUpTo(_, _)
SeqsUpTo(S, n) ==
    IF n = 0 THEN {<<>>}
    ELSE LET shorter == SeqsUpTo(S, n - 1)
         IN  shorter \cup {Append(s, x) : s \in shorter, x \in S}

FallbackLists(maxFallback) == SeqsUpTo(Locales, maxFallback)

\* Locale tags for the URL computation: the tags above and every short tag
\* over a letter, the hyphen and the underscore.
UrlLocales == Locales \cup (SeqsUpTo({"a", "-", "_"}, MaxTagLength) \ {<<>>})

\* The Error objects FluentBundle.addResource can report for one resource.
ErrorLists == {<<>>, <<"a", "b">>}

----------------------------------------------------------------------------
(* JavaScript values and the operators the source applies to them.         *)

ArrayRef(r) == [type |-> "array", ref |-> r, chars |-> <<>>]
StringValue(s) == [type |-> "string", ref |-> 0, chars |-> s]

\* String(new Error(m)) is "Error: " + m; abbreviated to "E" + m.
ErrorToString(e) == <<"E", e>>

\* Array.prototype.join(","), which Array.prototype.toString applies.
RECURSIVE Join(_)
Join(items) ==
    IF Len(items) = 0 THEN <<>>
    ELSE IF Len(items) = 1 THEN ErrorToString(items[1])
    ELSE ErrorToString(items[1]) \o <<",">> \o Join(Tail(items))

\* ToString of a value that is a string or an array of Error objects.
JsToString(v, h) == IF v.type = "string" THEN v.chars ELSE Join(h[v.ref])

\* l + r (and so l += r) where an operand is an object: both operands are
\* converted to strings and concatenated; the result is a string.
JsPlus(l, r, h) == StringValue(JsToString(l, h) \o JsToString(r, h))

\* The values a for...of loop visits: the items of an array, the characters
\* of a string.
Iterate(v, h) ==
    IF v.type = "string" THEN [i \in 1..Len(v.chars) |-> <<v.chars[i]>>]
    ELSE [i \in 1..Len(h[v.ref]) |-> ErrorToString(h[v.ref][i])]

\* Position of the first occurrence of pat in s, 0 when there is none.
IndexOf(s, pat) ==
    LET hits == {i \in 1..(Len(s) - Len(pat) + 1) :
                    SubSeq(s, i, i + Len(pat) - 1) = pat}
    IN  IF hits = {} THEN 0 ELSE CHOOSE i \in hits : \A j \in hits : i <= j

\* Variant: every occurrence is replaced, as String.prototype.replaceAll
\* does.
RECURSIVE replace_all(_, _, _)
replace_all(s, pat, rep) ==
    LET i == IndexOf(s, pat)
    IN  IF i = 0 THEN s
        ELSE SubSeq(s, 1, i - 1) \o rep \o
             replace_all(SubSeq(s, i + Len(pat), Len(s)), pat, rep)

\* String.prototype.replace(pat, rep) with a string pattern: the first
\* occurrence only.  (rep holds no "$" here, so no replacement patterns.)
replace(s, pat, rep) ==
    LET i == IndexOf(s, pat)
    IN  IF i = 0 THEN s
        ELSE SubSeq(s, 1, i - 1) \o rep \o SubSeq(s, i + Len(pat), Len(s))

----------------------------------------------------------------------------
(* fetch_resource, create_bundle.                                          *)

\* The URL fetch_resource requests for a locale and a URL template.
fetch_resource_url(locale, resourceId) ==
    LET normalized == replace(locale, <<"-">>, <<"_">>)
    IN  replace(resourceId, Placeholder, normalized)

\* errors.entries after "errors.entries += bundle.addResource(resource)",
\* where the array addResource returned has been allocated at reported.
add_resource_errors(entries, reported, h) == JsPlus(entries, reported, h)

\* The lines create_bundle writes for one locale, one per value the loop
\* over errors.entries visits.
log_lines(locale, entries, h) ==
    LET visited == Iterate(entries, h)
    IN  [i \in 1..Len(visited) |-> [locale |-> locale, entry |-> visited[i]]]

\* Variant: the bundle is constructed for the locale as fetch_resource
\* rewrites it for the URL.
FluentBundle_normalized(locale, errs) ==
    [type |-> "bundle", locale |-> replace(locale, <<"-">>, <<"_">>), reported |-> errs]

\* The FluentBundle create_bundle returns: new FluentBundle(locale).  The
\* record also keeps, for the properties, the errors addResource reported
\* while the bundle was filled.
FluentBundle(locale, errs) == [type |-> "bundle", locale |-> locale, reported |-> errs]

----------------------------------------------------------------------------
(* create_bundle_generator: the closure and the async generator objects    *)
(* made from it.                                                           *)

\* Variant: the formatter's generator is handed the container of the DOM
\* translator (containers are made in pairs, the DOM one first).
create_bundle_generator_shared(locale, fallback_locales, errors) ==
    [locale |-> locale, fallback_locales |-> fallback_locales,
     errors |-> IF errors % 2 = 0 THEN errors - 1 ELSE errors]

create_bundle_generator(locale, fallback_locales, errors) ==
    [locale |-> locale, fallback_locales |-> fallback_locales, errors |-> errors]

\* Variant: the loop walks the fallback list from its end.
locale_at_reversed(g, at) ==
    IF at = 0 THEN g.locale ELSE g.fallback_locales[Len(g.fallback_locales) + 1 - at]

\* The locale of the create_bundle call at position at of generate_bundles:
\* 0 is the call for the primary locale, i >= 1 iteration i of the loop.
locale_at(g, at) == IF at = 0 THEN g.locale ELSE g.fallback_locales[at]

\* What settles a request besides a bundle: the rejection with the error
\* the generator threw, and {done: true}.
Raise == [type |-> "raise", locale |-> <<>>, reported |-> <<>>]
Done == [type |-> "done", locale |-> <<>>, reported |-> <<>>]

\* Requests of a generator object that are not settled yet (its queue).
Queue(p) == p.requests - Len(p.results)

\* The generator returns or throws while requests are queued: the oldest
\* one is settled by first, every other one with {done: true}.
complete(p, first) ==
    [p EXCEPT !.state = "completed", !.await = "none",
              !.results = p.results \o <<first>> \o [i \in 1..(Queue(p) - 1) |-> Done]]

\* Variant: after the last fallback the loop starts over with the primary
\* locale instead of returning.
resume_restart(p) ==
    LET g == generators[p.gen]
        at == IF p.state = "suspendedStart" \/ p.at + 1 > Len(g.fallback_locales)
              THEN 0 ELSE p.at + 1
    IN  [p EXCEPT !.state = "executing", !.at = at, !.await = "fetch",
                  !.fetched = Append(p.fetched,
                                fetch_resource_url(locale_at(g, at), p.resourceIds[1]))]

\* Variant: the loop passes over a fallback locale that stands earlier in the
\* chain (the chain is de-duplicated).
resume_distinct(p) ==
    LET g == generators[p.gen]
        from == IF p.state = "suspendedStart" THEN 0 ELSE p.at + 1
        fresh == {i \in from..Len(g.fallback_locales) :
                     \A j \in 0..(i - 1) : locale_at(g, j) # locale_at(g, i)}
    IN  IF fresh # {}
        THEN LET at == CHOOSE i \in fresh : \A j \in fresh : i <= j
             IN  [p EXCEPT !.state = "executing", !.at = at, !.await = "fetch",
                           !.fetched = Append(p.fetched,
                                         fetch_resource_url(locale_at(g, at),
                                                            p.resourceIds[1]))]
        ELSE complete(p, Done)

\* The generator body runs on from where it is suspended: it calls
\* create_bundle for the next locale, which issues the fetch and awaits it,
\* or it leaves the loop and returns.
resume(p) ==
    LET g == generators[p.gen]
        at == IF p.state = "suspendedStart" THEN 0 ELSE p.at + 1
    IN  IF at <= Len(g.fallback_locales)
        THEN [p EXCEPT !.state = "executing", !.at = at, !.await = "fetch",
                       !.fetched = Append(p.fetched,
                                     fetch_resource_url(locale_at(g, at), p.resourceIds[1]))]
        ELSE complete(p, Done)

\* Variant: after yielding, the generator goes on to the next locale without
\* waiting for a request (it prefetches the next resource).
yield_prefetch(p, bundle) ==
    resume([p EXCEPT !.state = "suspendedYield", !.await = "none",
                     !.response = "none", !.results = Append(p.results, bundle)])

\* "yield bundle": the oldest request is settled with the bundle and the
\* generator suspends; it runs on at once when a further request is queued.
yield(p, bundle) ==
    LET q == [p EXCEPT !.state = "suspendedYield", !.await = "none",
                       !.response = "none", !.results = Append(p.results, bundle)]
    IN  IF Queue(q) > 0 THEN resume(q) ELSE q

\* Variant: the exception is caught around the yield; the request is settled
\* by raising, and the generator stays alive and goes on with the fallbacks.
throw_and_continue(p) ==
    LET q == [p EXCEPT !.state = "suspendedYield", !.await = "none",
                       !.rejected = @ \cup {p.at},
                       !.results = Append(p.results, Raise)]
    IN  IF Queue(q) > 0 THEN resume(q) ELSE q

\* A rejected await inside create_bundle: the exception leaves "yield await"
\* uncaught, so the generator throws and is completed.  rejected keeps, for
\* the properties, the position whose fetch failed.
throw(p) == complete([p EXCEPT !.rejected = @ \cup {p.at}], Raise)

\* Variant: create_bundle throws when addResource reported errors.
return_bundle_or_throw(p, locale, errs) ==
    IF errs # <<>> THEN throw(p) ELSE yield(p, FluentBundle(locale, errs))

\* create_bundle returns its bundle ("return bundle") and generate_bundles
\* yields it, whatever errors addResource reported.
return_bundle(p, locale, errs) == yield(p, FluentBundle(locale, errs))

\* Variant: the position in the chain is kept by the generator function, not
\* by the generator object: an object made after another one of the same
\* function has started goes on from that one's position.
new_producer_continued(gen, resourceIds) ==
    LET earlier == {l \in 1..Len(producers) :
                       /\ producers[l][1].gen = gen
                       /\ producers[l][1].state # "suspendedStart"}
        at == IF earlier = {} THEN 0 ELSE producers[CHOOSE l \in earlier : TRUE][1].at
    IN  [gen |-> gen, resourceIds |-> resourceIds,
         state |-> IF earlier = {} THEN "suspendedStart" ELSE "suspendedYield",
         at |-> at, await |-> "none", response |-> "none", requests |-> 0,
         results |-> <<>>, fetched |-> <<>>, rejected |-> {}, logged |-> <<>>]

\* A fresh generator object: generate_bundles(resourceIds) was invoked.
\* at is the position of the create_bundle call in progress or last made,
\* await the promise that call waits for, response the outcome of its fetch
\* (cleared when its bundle is yielded), requests the next() calls made so
\* far, results what settled them, in order, fetched the URLs requested so
\* far, and logged the lines the most recent call of create_bundle wrote to
\* the console.
new_producer(gen, resourceIds) ==
    [gen |-> gen, resourceIds |-> resourceIds, state |-> "suspendedStart",
     at |-> 0, await |-> "none", response |-> "none", requests |-> 0,
     results |-> <<>>, fetched |-> <<>>, rejected |-> {}, logged |-> <<>>]

----------------------------------------------------------------------------
(* State machine.                                                          *)

Init ==
    /\ heap = <<>>
    /\ accumulators = <<>>
    /\ generators = <<>>
    /\ localizations = <<>>
    /\ calls = <<>>
    /\ producers = <<>>

\* The generator object the engine gets by invoking the generator function
\* of localization l with the resource ids it was constructed with.
generate_bundles(l) == new_producer(l.generateBundles, l.resourceIds)

\* init_localization(resource_path_template, locale, fallback_locales).  The
\* constructors of DOMLocalization and Localization invoke the generator
\* function they are given once, with their resource ids; the requests for
\* bundles follow as the engine translates.
init_localization(resource_path_template, locale, fallback_locales) ==
    LET dom_array == Len(heap) + 1
        main_array == Len(heap) + 2
        dom_errors == Len(accumulators) + 1
        main_errors == Len(accumulators) + 2
        dom_bundle_gen == Len(generators) + 1
        loc_bundle_gen == Len(generators) + 2
        dom == Len(localizations) + 1
        main == Len(localizations) + 2
        dom_localization == [resourceIds |-> <<resource_path_template>>,
                             generateBundles |-> dom_bundle_gen]
        main_localization == [resourceIds |-> <<resource_path_template>>,
                              generateBundles |-> loc_bundle_gen]
    IN  /\ heap' = heap \o <<<<>>, <<>>>>
        /\ accumulators' = accumulators \o
               <<[entries |-> ArrayRef(dom_array)], [entries |-> ArrayRef(main_array)]>>
        /\ generators' = generators \o
               <<create_bundle_generator(locale, fallback_locales, dom_errors),
                 create_bundle_generator(locale, fallback_locales, main_errors)>>
        /\ localizations' = localizations \o <<dom_localization, main_localization>>
        /\ producers' = producers \o <<<<generate_bundles(dom_localization)>>,
                                       <<generate_bundles(main_localization)>>>>
        /\ calls' = Append(calls,
               [arguments |-> <<resource_path_template, locale, fallback_locales>>,
                dom |-> dom,
                dom_errors |-> accumulators'[dom_errors].entries,
                main |-> main,
                main_errors |-> accumulators'[main_errors].entries])

\* Variant: a request made while the generator is executing does not wait in
\* the queue; it starts the fetch for the following locale at once.
next_concurrent(l, k) ==
    /\ LET p == [producers[l][k] EXCEPT !.requests = @ + 1]
           g == generators[p.gen]
       IN  producers' = [producers EXCEPT ![l][k] =
               IF p.state = "completed" THEN [p EXCEPT !.results = Append(@, Done)]
               ELSE IF p.state = "executing"
                    THEN IF p.at + 1 <= Len(g.fallback_locales)
                         THEN [p EXCEPT !.at = @ + 1,
                                        !.fetched = Append(p.fetched,
                                            fetch_resource_url(locale_at(g, p.at + 1),
                                                               p.resourceIds[1]))]
                         ELSE p
               ELSE resume(p)]
    /\ UNCHANGED <<heap, accumulators, generators, localizations, calls>>

\* The engine of localization l invokes its generator function once more,
\* with the same resource ids (as it does when its resources or the user's
\* languages change): a further generator object.
invoke(l) ==
    /\ producers' = [producers EXCEPT ![l] = Append(@, generate_bundles(localizations[l]))]
    /\ UNCHANGED <<heap, accumulators, generators, localizations, calls>>

\* The consumer asks generator object k of localization l for its next
\* bundle: next().  While the generator is executing the request only joins
\* the queue.
next(l, k) ==
    /\ LET p == [producers[l][k] EXCEPT !.requests = @ + 1]
       IN  producers' = [producers EXCEPT ![l][k] =
               IF p.state = "completed" THEN [p EXCEPT !.results = Append(@, Done)]
               ELSE IF p.state = "executing" THEN p
               ELSE resume(p)]
    /\ UNCHANGED <<heap, accumulators, generators, localizations, calls>>

\* "await fetch(url)" settles: a response arrives, with a success status or
\* with an HTTP error status, or the fetch is rejected (network error).
fetch_settles(l, k, outcome) ==
    /\ producers[l][k].await = "fetch"
    /\ producers' = [producers EXCEPT ![l][k] =
           IF outcome = "network_error" THEN throw([@ EXCEPT !.response = outcome])
           ELSE [@ EXCEPT !.await = "text", !.response = outcome]]
    /\ UNCHANGED <<heap, accumulators, generators, localizations, calls>>

\* "await response.text()" is rejected: the body could not be read.
text_rejects(l, k) ==
    /\ producers[l][k].await = "text"
    /\ producers' = [producers EXCEPT ![l][k] = throw(@)]
    /\ UNCHANGED <<heap, accumulators, generators, localizations, calls>>

\* "await response.text()" resolves: fetch_resource returns the resource and
\* create_bundle runs to its end; addResource reports the errors errs.
create_bundle(l, k, errs) ==
    /\ producers[l][k].await = "text"
    /\ LET p == producers[l][k]
           g == generators[p.gen]
           locale == locale_at(g, p.at)
           reported == Len(heap) + 1
           h == Append(heap, errs)
           entries == add_resource_errors(accumulators[g.errors].entries,
                                          ArrayRef(reported), h)
       IN  /\ accumulators' = [accumulators EXCEPT ![g.errors].entries = entries]
           /\ producers' = [producers EXCEPT ![l][k] =
                  return_bundle([p EXCEPT !.logged = log_lines(locale, entries, h)],
                                locale, errs)]
    /\ UNCHANGED <<heap, generators, localizations, calls>>

\* The generator objects that exist, as <<localization, index>> pairs.
Producers ==
    UNION {{<<l, k>> : k \in 1..Len(producers[l])} : l \in 1..Len(producers)}

\* The next-bundle requests made on the generator objects ps[1..n].
RECURSIVE SumRequests(_, _)
SumRequests(ps, n) ==
    IF n = 0 THEN 0 ELSE ps[n].requests + SumRequests(ps, n - 1)

\* Next-bundle requests made so far, by all consumers together.
RECURSIVE TotalRequests(_)
TotalRequests(l) ==
    IF l = 0 THEN 0
    ELSE SumRequests(producers[l], Len(producers[l])) + TotalRequests(l - 1)

\* The arguments of the first call of init_localization in a session.
SessionArguments(maxFallback) == Templates \X Locales \X FallbackLists(maxFallback)

\* The arguments of a call of init_localization: those of the first call
\* come from first, and a run that calls it again repeats them.
CallArguments(first) == IF calls = <<>> THEN first ELSE {calls[1].arguments}

\* The steps of a run with at most maxCalls calls of init_localization, each
\* the first with arguments from first, and at most maxRequests next-bundle
\* requests.
StepsFrom(first, maxCalls, maxRequests) ==
    \/ \E a \in CallArguments(first) :
           Len(calls) < maxCalls /\ init_localization(a[1], a[2], a[3])
    \/ /\ TotalRequests(Len(producers)) < maxRequests
       /\ \E lk \in Producers : next(lk[1], lk[2])
    \/ \E lk \in Producers, o \in {"ok", "http_error", "network_error"} :
           fetch_settles(lk[1], lk[2], o)
    \/ \E lk \in Producers : text_rejects(lk[1], lk[2])
    \/ \E lk \in Producers, errs \in ErrorLists : create_bundle(lk[1], lk[2], errs)

\* The steps of a run with at most maxCalls calls of init_localization,
\* fallback lists of at most maxFallback locales and at most maxRequests
\* next-bundle requests.
Steps(maxCalls, maxFallback, maxRequests) ==
    StepsFrom(SessionArguments(maxFallback), maxCalls, maxRequests)

\* One session: a single call of init_localization.
Next == Steps(1, MaxFallback, MaxRequests)

Spec == Init /\ [][Next]_vars

\* Several sessions: init_localization is called again.
NextSessions == Steps(MaxCalls, MaxSessionFallback, MaxSessionRequests)

SpecSessions == Init /\ [][NextSessions]_vars

\* One session without fallback locales, over the templates and locale tags
\* of the URL computation.
NextUrl == StepsFrom(UrlTemplates \X UrlLocales \X {<<>>}, 1, MaxUrlRequests)

SpecUrl == Init /\ [][NextUrl]_vars

\* The arguments of a session in which generator functions are invoked
\* again: "en-US" with fallback locales from "en-US" and "de_DE".
InvocationArguments ==
    Templates \X {enUS} \X SeqsUpTo({enUS, de_DE}, MaxInvocationFallback)

\* One session in which generator functions are invoked again.
NextInvocations ==
    \/ StepsFrom(InvocationArguments, 1, MaxInvocationRequests)
    \/ /\ Cardinality(Producers) < Len(localizations) + MaxInvocations
       /\ \E l \in 1..Len(localizations) : invoke(l)

SpecInvocations == Init /\ [][NextInvocations]_vars

----------------------------------------------------------------------------
(* Vocabulary of the properties.                                           *)

\* The call of init_localization that made localization l, and what that
\* call was given: the primary locale followed by the fallback list.
CallOf(l) == (l + 1) \div 2
Chain(l) == <<calls[CallOf(l)].arguments[2]>> \o calls[CallOf(l)].arguments[3]

\* The error list the call handed back for localization l (dom_errors for
\* the DOM translator, main_errors for the formatter), as a list of items.
ReturnedErrors(l) ==
    LET v == IF l % 2 = 1 THEN calls[CallOf(l)].dom_errors
             ELSE calls[CallOf(l)].main_errors
    IN  IF v.type = "array" THEN heap[v.ref] ELSE <<>>

IsBundle(r) == r.type = "bundle"
Bundles(p) == SelectSeq(p.results, IsBundle)
YieldedLocales(p) == [i \in 1..Len(Bundles(p)) |-> Bundles(p)[i].locale]

IsPrefix(s, t) == Len(s) <= Len(t) /\ SubSeq(t, 1, Len(s)) = s
Range(s) == {s[i] : i \in 1..Len(s)}

\* The part of a fetched URL that stands where the template has {locale}.
LocaleSegment(url, template) ==
    LET i == IndexOf(template, Placeholder)
        after == Len(template) - (i + Len(Placeholder) - 1)
    IN  SubSeq(url, i, Len(url) - after)

----------------------------------------------------------------------------
(* Properties.                                                             *)

\* C1: the locales of the bundles a producer has yielded so far are a prefix
\* of the primary locale followed by the fallback list, as the caller of
\* init_localization gave them.
BundleOrder ==
    \A lk \in Producers :
        IsPrefix(YieldedLocales(producers[lk[1]][lk[2]]), Chain(lk[1]))

\* A producer has yielded the primary bundle and two fallback bundles of
\* pairwise different locales.
BundleOrderWitness ==
    \E lk \in Producers :
        LET c == Chain(lk[1])
        IN  /\ Len(c) = 3
            /\ c[1] # c[2] /\ c[2] # c[3] /\ c[1] # c[3]
            /\ YieldedLocales(producers[lk[1]][lk[2]]) = c

\* C2: a producer has issued at most as many fetches as its consumer has
\* made next-bundle requests.
Laziness ==
    \A lk \in Producers :
        Len(producers[lk[1]][lk[2]].fetched) <= producers[lk[1]][lk[2]].requests

\* The primary bundle was yielded to the only request made so far, fallback
\* locales are configured, and only the primary resource has been fetched.
LazinessWitness ==
    \E lk \in Producers :
        LET p == producers[lk[1]][lk[2]]
        IN  /\ Len(Chain(lk[1])) > 1
            /\ p.requests = 1
            /\ Len(p.results) = 1 /\ p.results[1].type = "bundle"
            /\ p.state = "suspendedYield"
            /\ Len(p.fetched) = 1

\* C3: every error addResource reported while a producer built a bundle is
\* an item of the error list init_localization returned for that producer.
ReturnedListHoldsParseErrors ==
    \A lk \in Producers :
        \A r \in Range(producers[lk[1]][lk[2]].results) :
            r.type = "bundle" => Range(r.reported) \subseteq Range(ReturnedErrors(lk[1]))

\* C4: in the step in which the fetch for the primary locale fails, the
\* first request is settled by raising, no bundle has been yielded and only
\* the primary resource has been fetched.
PrimaryFailureRaises ==
    [][\A lk \in Producers :
          LET p == producers[lk[1]][lk[2]]
              q == producers'[lk[1]][lk[2]]
          IN  (0 \notin p.rejected /\ 0 \in q.rejected) =>
                  /\ Len(q.results) >= 1 /\ q.results[1] = Raise
                  /\ Bundles(q) = <<>>
                  /\ Len(q.fetched) = 1]_vars

\* The fetch for the primary locale was rejected while two requests were
\* queued and fallback locales are configured.
PrimaryFailureWitness ==
    \E lk \in Producers :
        LET p == producers[lk[1]][lk[2]]
        IN  /\ Len(Chain(lk[1])) > 1
            /\ 0 \in p.rejected /\ p.response = "network_error"
            /\ p.requests >= 2
            /\ p.results[1] = Raise

\* C5: after the fetch at position i has failed, the next request settled on
\* the same producer has fetched the locale at position i + 1 (when there is
\* one) and is settled with that locale's bundle, or with the error of that
\* locale's own fetch; it does not signal exhaustion.
NextFallbackAfterFailure ==
    \A lk \in Producers :
        LET p == producers[lk[1]][lk[2]]
        IN  \A i \in p.rejected :
                (i + 2 <= Len(Chain(lk[1])) /\ Len(p.results) >= i + 2) =>
                    /\ Len(p.fetched) >= i + 2
                    /\ p.results[i + 2].type # "done"
                    /\ p.results[i + 2].type = "bundle" =>
                           p.results[i + 2].locale = Chain(lk[1])[i + 2]

\* C6: a step whose fetch was rejected, or whose response carries an HTTP
\* error status, ends by raising; it does not settle its request with a
\* bundle.
FetchFailureIsFatal ==
    [][\A lk \in Producers :
          LET p == producers[lk[1]][lk[2]]
              q == producers'[lk[1]][lk[2]]
          IN  (/\ p.await # "none"
               /\ Len(q.results) > Len(p.results)
               /\ (p.response = "http_error" \/ p.at \in q.rejected)) =>
                  q.results[Len(p.results) + 1] = Raise]_vars

\* C7: the locale segment of every fetched URL holds no hyphen.
UnderscoreSeparatorsOnly ==
    \A lk \in Producers :
        LET p == producers[lk[1]][lk[2]]
        IN  \A i \in 1..Len(p.fetched) :
                "-" \notin Range(LocaleSegment(p.fetched[i], p.resourceIds[1]))

\* C8: a producer yields at most one bundle and issues at most one fetch per
\* locale of its chain; while no fetch has failed its requests are settled
\* by one bundle per locale and by exhaustion from then on; and once a
\* request has signalled exhaustion the producer is finished: every later
\* request signals exhaustion and no fetch is in flight.
FiniteNotRestartable ==
    \A lk \in Producers :
        LET p == producers[lk[1]][lk[2]]
            n == Len(Chain(lk[1]))
        IN  /\ Len(Bundles(p)) <= n
            /\ Len(p.fetched) <= n
            /\ p.rejected = {} =>
                   \A i \in 1..Len(p.results) :
                       p.results[i].type = (IF i <= n THEN "bundle" ELSE "done")
            /\ \A i \in 1..Len(p.results) :
                   p.results[i].type = "done" =>
                       /\ p.state = "completed" /\ p.await = "none"
                       /\ \A j \in i..Len(p.results) : p.results[j].type = "done"

\* Every fetch of a chain with fallbacks succeeded, and two more requests
\* were made after the last bundle.
FiniteNotRestartableWitness ==
    \E lk \in Producers :
        LET p == producers[lk[1]][lk[2]]
            n == Len(Chain(lk[1]))
        IN  /\ n >= 2
            /\ p.rejected = {}
            /\ Len(p.results) = n + 2
            /\ Len(Bundles(p)) = n
            /\ p.results[n + 1] = Done /\ p.results[n + 2] = Done

\* C9: a step of a producer changes no error container but the one made for
\* its own localization, whichever call of init_localization made them.
AccumulatorsIndependent ==
    [][\A lk \in Producers :
          producers'[lk[1]][lk[2]] # producers[lk[1]][lk[2]] =>
              \A a \in 1..Len(accumulators) :
                  a # lk[1] => accumulators'[a] = accumulators[a]]_vars

\* After two calls, the DOM producer of the first call has recorded parse
\* errors and the DOM producer of the second call has built a bundle from a
\* resource without errors.
AccumulatorsIndependentWitness ==
    /\ Len(calls) = 2
    /\ accumulators[1].entries = StringValue(Join(<<"a", "b">>))
    /\ accumulators[3].entries = StringValue(<<>>)
    /\ accumulators[2].entries.type = "array"

\* C10: when addResource reported errors the step still settled its request
\* with the bundle of its locale (errors were recorded only by steps that
\* yielded), and the producer goes on with the locale after it: the next
\* request is not answered with exhaustion.
ParseErrorsRecoverable ==
    \A lk \in Producers :
        LET p == producers[lk[1]][lk[2]]
            n == Len(Chain(lk[1]))
            a == accumulators[lk[1]].entries
        IN  /\ (a.type = "string" /\ a.chars # <<>>) =>
                   \E r \in Range(p.results) : r.type = "bundle" /\ r.reported # <<>>
            /\ \A i \in 1..Len(p.results) :
                   (p.results[i].type = "bundle" /\ p.results[i].reported # <<>>) =>
                       /\ p.results[i].locale = Chain(lk[1])[i]
                       /\ i < n =>
                              IF i < Len(p.results) THEN p.results[i + 1].type # "done"
                              ELSE p.state # "completed"

\* The primary resource had parse errors, and the producer went on to yield
\* the bundles of both fallback locales.
ParseErrorsRecoverableWitness ==
    \E lk \in Producers :
        LET p == producers[lk[1]][lk[2]]
        IN  /\ Len(Chain(lk[1])) = 3
            /\ Len(p.results) >= 3
            /\ p.results[1].type = "bundle" /\ p.results[1].reported # <<>>
            /\ p.results[2].type = "bundle" /\ p.results[3].type = "bundle"

\* A tag in which the first hyphen, and no other character, is exchanged for
\* an underscore.
FirstHyphenAsUnderscore(tag) ==
    [i \in 1..Len(tag) |->
        IF tag[i] = "-" /\ \A j \in 1..(i - 1) : tag[j] # "-" THEN "_" ELSE tag[i]]

IsStep(r) == r.type # "done"
Ended(p) == Len(SelectSeq(p.results, IsStep))

\* C12: every fetch a producer has issued belongs to a step that has ended
\* or to the one step in progress, so that at most one fetch is in flight
\* however many requests are queued; a fetch is in flight only while the
\* generator is executing.
OneFetchInFlight ==
    \A lk \in Producers :
        LET p == producers[lk[1]][lk[2]]
        IN  /\ Len(p.fetched) = Ended(p) + (IF p.await # "none" THEN 1 ELSE 0)
            /\ p.await # "none" <=> p.state = "executing"

\* Three requests were made without waiting; the primary bundle has been
\* yielded, the first fallback is being fetched and one request is queued
\* behind it.
OneFetchInFlightWitness ==
    \E lk \in Producers :
        LET p == producers[lk[1]][lk[2]]
        IN  /\ Len(Chain(lk[1])) = 3
            /\ p.requests = 3
            /\ Len(p.results) = 1 /\ p.results[1].type = "bundle"
            /\ p.await = "fetch"
            /\ Len(p.fetched) = 2

\* C13: the locale segments of the URLs a producer has fetched are a prefix
\* of the chain (primary, then fallbacks) with each tag's first hyphen
\* written as an underscore; the producer has issued one fetch for each
\* position it has reached, repeated locales included, and none for a
\* position whose fetch failed but that one.
FetchSequence ==
    \A lk \in Producers :
        LET p == producers[lk[1]][lk[2]]
            c == Chain(lk[1])
            segments == [i \in 1..Len(p.fetched) |->
                            LocaleSegment(p.fetched[i], p.resourceIds[1])]
        IN  /\ IsPrefix(segments, [i \in 1..Len(c) |-> FirstHyphenAsUnderscore(c[i])])
            /\ Len(p.fetched) = IF p.state = "suspendedStart" THEN 0 ELSE p.at + 1
            /\ \A i \in p.rejected : Len(p.fetched) = i + 1

\* The first fallback equals the primary locale and has been fetched again
\* at its own position; that fetch failed, and a request made after the
\* failure has been settled.
FetchSequenceWitness ==
    \E lk \in Producers :
        LET p == producers[lk[1]][lk[2]]
            c == Chain(lk[1])
        IN  /\ Len(c) = 3 /\ c[1] = c[2] /\ c[2] # c[3]
            /\ Len(p.fetched) = 2 /\ p.fetched[1] = p.fetched[2]
            /\ p.rejected = {1}
            /\ Len(p.results) = 3

\* The errors addResource reported for the bundles bs, one entry per error,
\* in the order of the bundles.
RECURSIVE ReportedEntries(_)
ReportedEntries(bs) ==
    IF bs = <<>> THEN <<>>
    ELSE [i \in 1..Len(bs[1].reported) |-> ErrorToString(bs[1].reported[i])]
         \o ReportedEntries(Tail(bs))

\* C14: the entries of a producer's error container are the errors
\* addResource reported for the bundles built so far, one entry per error,
\* in step order.
AccumulatorAppendOnly ==
    \A lk \in Producers :
        LET p == producers[lk[1]][lk[2]]
            entries == accumulators[generators[p.gen].errors].entries
        IN  Iterate(entries, heap) = ReportedEntries(Bundles(p))

\* The text of the console lines, without the locale they name.
RECURSIVE LoggedText(_)
LoggedText(lines) ==
    IF lines = <<>> THEN <<>> ELSE lines[1].entry \o LoggedText(Tail(lines))

\* C15: what the most recent call of create_bundle wrote to the console
\* names the locale of the bundle it built and holds the errors addResource
\* reported for that bundle, and nothing else: no error of an earlier step
\* appears under this step's locale.
ErrorsLoggedUnderOwnLocale ==
    \A lk \in Producers :
        LET p == producers[lk[1]][lk[2]]
            bs == Bundles(p)
        IN  bs # <<>> =>
                /\ \A i \in 1..Len(p.logged) : p.logged[i].locale = bs[Len(bs)].locale
                /\ LoggedText(p.logged) = Join(bs[Len(bs)].reported)

\* C16: the bundle that settled request i of a producer is constructed for
\* the tag at position i of the chain, character for character, while the
\* URL fetched for it carries the tag with its first hyphen as underscore:
\* for a tag with a hyphen the two differ.
BundleKeepsSuppliedTag ==
    \A lk \in Producers :
        LET p == producers[lk[1]][lk[2]]
        IN  \A i \in 1..Len(p.results) :
                p.results[i].type = "bundle" =>
                    LET tag == Chain(lk[1])[i]
                        segment == LocaleSegment(p.fetched[i], p.resourceIds[1])
                    IN  /\ p.results[i].locale = tag
                        /\ segment = FirstHyphenAsUnderscore(tag)
                        /\ "-" \in Range(tag) => p.results[i].locale # segment

\* The bundle for "zh-Hant-TW" has been yielded after "l/zh_Hant-TW/m" was
\* fetched for it.
BundleKeepsSuppliedTagWitness ==
    \E lk \in Producers :
        LET p == producers[lk[1]][lk[2]]
        IN  /\ Len(p.results) >= 1
            /\ p.results[1].type = "bundle"
            /\ p.results[1].locale = zhHantTW
            /\ p.fetched[1] = <<"l", "/", "z", "h", "_", "H", "a", "n", "t", "-", "T", "W",
                                 "/", "m">>

\* The text addResource's reports add to a container for the bundles bs.
RECURSIVE ReportedText(_)
ReportedText(bs) ==
    IF bs = <<>> THEN <<>> ELSE Join(bs[1].reported) \o ReportedText(Tail(bs))

\* Length of the text reported for the bundles of the generator objects
\* ps[1..n].
RECURSIVE ReportedLength(_, _)
ReportedLength(ps, n) ==
    IF n = 0 THEN 0
    ELSE Len(ReportedText(Bundles(ps[n]))) + ReportedLength(ps, n - 1)

\* C17: every generator object of a localization, those of further
\* invocations included, is unstarted until it is asked itself, begins with
\* the primary locale and gets as far along the chain as its own requests
\* take it, whatever the other generator objects of the same function have
\* done; and the one container of the function has received the reports of
\* all of them.
InvocationsIndependent ==
    \A l \in 1..Len(producers) :
        /\ \A k \in 1..Len(producers[l]) :
               LET p == producers[l][k]
               IN  /\ p.gen = localizations[l].generateBundles
                   /\ Len(p.results) <= p.requests
                   /\ Len(p.fetched) <= p.requests
                   /\ p.requests = 0 => p.state = "suspendedStart"
                   /\ p.fetched # <<>> =>
                          LocaleSegment(p.fetched[1], p.resourceIds[1])
                              = FirstHyphenAsUnderscore(Chain(l)[1])
                   /\ p.results # <<>> => p.results[1].type # "done"
                   /\ IsPrefix(YieldedLocales(p), Chain(l))
        /\ Len(JsToString(accumulators[generators[localizations[l].generateBundles].errors]
                              .entries, heap))
               = ReportedLength(producers[l], Len(producers[l]))

\* Two generator objects of the DOM translator's function: the first has
\* been exhausted, the second has yielded the primary bundle only, and the
\* container holds the errors reported to both.
InvocationsIndependentWitness ==
    /\ Len(producers) >= 1 /\ Len(producers[1]) = 2
    /\ Done \in Range(producers[1][1].results)
    /\ producers[1][1].rejected = {}
    /\ producers[1][2].state = "suspendedYield"
    /\ Len(producers[1][2].results) = 1
    /\ producers[1][1].results[1].reported = <<"a", "b">>
    /\ producers[1][2].results[1].reported = <<"a", "b">>
    /\ accumulators[1].entries = StringValue(Join(<<"a", "b">>) \o Join(<<"a", "b">>))

====
